---- MODULE Spec2Model ----
(***************************************************************************)
(* The psycopg3 Transformer (psycopg3/_transform.py): dumper and loader    *)
(* resolution with per-format caches, result binding, bulk row decoding    *)
(* and bulk parameter encoding.                                            *)
(*                                                                         *)
(* Python objects are modelled by identity: a Dumper or Loader instance is *)
(* an entry of an object store (dumpers, loaders) and the caches and the   *)
(* row loaders hold identities, as the Python code holds references.       *)
(***************************************************************************)
EXTENDS Integers, Sequences, FiniteSets, TLC

VARIABLES
    context,          \* the context the Transformer was constructed from
    global_adapters,  \* the process-wide AdaptersMap
    context_adapters, \* the AdaptersMap owned by the context
    _adapters,        \* which AdaptersMap the Transformer refers to
    _connection,      \* the connection taken from the context, or None
    _unknown_oid,     \* OID reported for null parameters
    _dumpers_cache,   \* format -> (DumperKey -> Dumper identity)
    _loaders_cache,   \* format -> (oid -> Loader identity)
    dumpers,          \* Dumper objects ever constructed: identity -> fields
    loaders,          \* Loader objects ever constructed: identity -> fields
    _pgresult,        \* the bound result, or None
    _nfields,         \* column count copied from the bound result
    _ntuples,         \* row count copied from the bound result
    _row_loaders,     \* sequence of load functions (Loader identities)
    ret               \* the last call: its name, arguments and outcome

vars == <<context, global_adapters, context_adapters, _adapters, _connection,
          _unknown_oid, _dumpers_cache, _loaders_cache, dumpers, loaders,
          _pgresult, _nfields, _ntuples, _row_loaders, ret>>

ctorVars == <<context, global_adapters, context_adapters, _adapters, _connection,
              _unknown_oid>>
dumpVars == <<_dumpers_cache, dumpers>>
bindVars == <<_pgresult, _nfields, _ntuples, _row_loaders>>

(***************************************************************************)
(* Bounds of the model.                                                    *)
(***************************************************************************)
MaxParams == 2    \* longest parameter sequence given to dump_sequence
MaxCols == 2      \* most columns of a result / of a set_row_types call
MaxRows == 2      \* most rows of a result
MaxLen == 2       \* longest list object given to _find_list_element

(***************************************************************************)
(* Primitives: formats and OIDs.                                           *)
(***************************************************************************)
TEXT == 0
BINARY == 1
Formats == {TEXT, BINARY}

INVALID_OID == 0
TEXT_OID == 25
INT_OID == 23
OIDs == {INVALID_OID, INT_OID, TEXT_OID}

None == [t |-> "NoneType"]
Unset == [t |-> "unset"]          \* an attribute that was never assigned

(***************************************************************************)
(* Application values.  A scalar is a record with its runtime type; a list *)
(* is a root identity in a heap of list objects, so that a list can hold   *)
(* itself or hold the same sub-list twice.                                 *)
(***************************************************************************)
ListIds == {1, 2}
IntV(n) == [t |-> "int", v |-> n]
StrV(n) == [t |-> "str", v |-> n]   \* the n-th string value
Ref(i) == [t |-> "list", id |-> i]
ListVal(h, r) == [t |-> "list", id |-> r, heap |-> h]
Heap(l1, l2) == [i \in ListIds |-> IF i = 1 THEN l1 ELSE l2]

type(obj) == obj.t

LEmpty == ListVal(Heap(<<>>, <<>>), 1)                          \* []
LNulls == ListVal(Heap(<<None, Ref(2)>>, <<None>>), 1)          \* [None, [None]]
LInt == ListVal(Heap(<<None, IntV(1)>>, <<>>), 1)                \* [None, 1]
LNestedInt == ListVal(Heap(<<Ref(2)>>, <<None, IntV(2)>>), 1)    \* [[None, 2]]
LStr == ListVal(Heap(<<StrV(1)>>, <<>>), 1)                    \* ["a"]
LSelf == ListVal(Heap(<<Ref(1)>>, <<>>), 1)                     \* L = [L]
LLeafSelf == ListVal(Heap(<<IntV(1), Ref(1)>>, <<>>), 1)         \* L = [1, L]
LTrans == ListVal(Heap(<<Ref(2)>>, <<None, Ref(1)>>), 1)        \* L = [[None, L]]
LShared == ListVal(Heap(<<Ref(2), Ref(2)>>, <<None>>), 1)       \* x = [None]; [x, x]

Scalars == {IntV(1), IntV(2), StrV(1)}
Lists == {LEmpty, LNulls, LInt, LNestedInt, LStr, LSelf, LLeafSelf, LTrans, LShared}
Values == Scalars \cup Lists

\* The list objects a list object reaches through its list elements.
RECURSIVE ReachFrom(_, _, _)
ReachFrom(h, frontier, acc) ==
    LET next == UNION {{h[i][k].id : k \in {j \in 1..Len(h[i]) : type(h[i][j]) = "list"}} :
                          i \in frontier}
        new == next \ acc
    IN IF new = {} THEN acc ELSE ReachFrom(h, new, acc \cup new)

\* A list value contains itself, directly or transitively, when some list
\* object reachable from it (itself included) reaches itself.
IsCyclic(obj) ==
    /\ type(obj) = "list"
    /\ \E i \in {obj.id} \cup ReachFrom(obj.heap, {obj.id}, {}) :
           i \in ReachFrom(obj.heap, {i}, {})

(***************************************************************************)
(* The registry.  An AdaptersMap maps (type, format) to a dumper factory   *)
(* and (oid, format) to a loader factory.  The context's map shadows the   *)
(* process-wide one: a lookup that misses in it fails over to the global   *)
(* map.                                                                    *)
(***************************************************************************)
Empty == [x \in {} |-> None]
Factory(name) == [t |-> "factory", name |-> name]

GlobalDumpers ==
    (<<"str", TEXT>> :> Factory("StrDumper")) @@ (<<"str", BINARY>> :> Factory("StrBinaryDumper")) @@
    (<<"list", TEXT>> :> Factory("ListDumper")) @@ (<<"list", BINARY>> :> Factory("ListBinaryDumper")) @@
    (<<"int", TEXT>> :> Factory("IntDumper"))

GlobalLoaders ==
    (<<INT_OID, TEXT>> :> Factory("IntLoader")) @@ (<<INT_OID, BINARY>> :> Factory("IntBinaryLoader")) @@
    (<<INVALID_OID, TEXT>> :> Factory("UnknownLoader"))

ContextDumpers == (<<"str", TEXT>> :> Factory("CtxStrDumper"))

ContextLoaders == (<<INVALID_OID, BINARY>> :> Factory("CtxUnknownBinaryLoader"))

\* AdaptersMap.get_dumper / get_loader: the registered factory, or None.
Lookup(own, shared, k) ==
    IF k \in DOMAIN own THEN own[k]
    ELSE IF k \in DOMAIN shared THEN shared[k]
    ELSE None

AdaptersGetDumper(cls, format) ==
    IF _adapters = "context"
    THEN Lookup(context_adapters.dumpers, global_adapters.dumpers, <<cls, format>>)
    ELSE Lookup(global_adapters.dumpers, Empty, <<cls, format>>)

AdaptersGetLoader(oid, format) ==
    IF _adapters = "context"
    THEN Lookup(context_adapters.loaders, global_adapters.loaders, <<oid, format>>)
    ELSE Lookup(global_adapters.loaders, Empty, <<oid, format>>)

\* The OID a dumper built by a factory reports (Dumper.oid).
DumperOid(factory) ==
    CASE factory.name = "IntDumper" -> INT_OID
      [] factory.name \in {"StrDumper", "StrBinaryDumper", "CtxStrDumper"} -> TEXT_OID
      [] OTHER -> INVALID_OID

(***************************************************************************)
(* Transformer._find_list_element: the first non-null element of a         *)
(* possibly nested list.  The set of visited identities is shared by the   *)
(* whole traversal; a call returns the value found (or None), or raises,   *)
(* and the set as the caller sees it afterwards.                           *)
(***************************************************************************)
Raise(kind, msg) == [t |-> "raise", exc |-> kind, msg |-> msg]
IsRaise(x) == x.t = "raise"

RECURSIVE _find_list_element(_, _, _)
RECURSIVE FindLoop(_, _, _, _)

\* for it in L[k..]: ...
FindLoop(h, L, k, seen) ==
    IF k > Len(h[L]) THEN [res |-> None, seen |-> seen]
    ELSE LET it == h[L][k] IN
         IF type(it) = "list"
         THEN LET sub == _find_list_element(h, it.id, seen) IN
              IF IsRaise(sub.res) THEN sub
              ELSE IF sub.res # None THEN sub
              ELSE FindLoop(h, L, k + 1, sub.seen)
         ELSE IF it # None THEN [res |-> it, seen |-> seen]
         ELSE FindLoop(h, L, k + 1, seen)

\* The argument left out (seen=None) is passed here as the empty set: the
\* code treats both alike ("if not seen"), replacing either by a fresh set
\* that the caller does not see.
_find_list_element(h, L, seen) ==
    LET fresh == seen = {}
        mine == IF fresh THEN {} ELSE seen
    IN IF L \in mine
       THEN [res |-> Raise("DataError", "cannot dump a recursive list"), seen |-> seen]
       ELSE LET r == FindLoop(h, L, 1, mine \cup {L})
            IN [res |-> r.res, seen |-> IF fresh THEN seen ELSE r.seen]

(***************************************************************************)
(* Transformer.get_dumper.  T is the dumper side of the Transformer:       *)
(* [cache |-> _dumpers_cache, objs |-> dumpers].  The result carries the   *)
(* state the call leaves behind, whether it returns or raises.             *)
(***************************************************************************)
EmptyStr == StrV(0)                                   \* ""

DumperId(format, key, n) == [t |-> "Dumper", format |-> format, key |-> key, n |-> n]

\* dcls(cls, self): a new object, distinct from every object made before.
NewDumper(objs, format, key) ==
    DumperId(format, key,
             1 + Cardinality({d \in DOMAIN objs : d.format = format /\ d.key = key}))

\* Mutant: the cache is never consulted.
DumperCached_never(T, format, key) == FALSE

\* try: return self._dumpers_cache[format][key] / except KeyError: pass
DumperCached(T, format, key) == key \in DOMAIN T.cache[format]

RECURSIVE get_dumper(_, _, _)
get_dumper(T, obj, format) ==
    LET cls == type(obj)
        found == IF cls # "list" THEN [res |-> None]
                 ELSE _find_list_element(obj.heap, obj.id, {})
        subobj == IF found.res = None THEN EmptyStr ELSE found.res
        key == IF cls # "list" THEN <<cls>> ELSE <<cls, type(subobj)>>
        dcls == AdaptersGetDumper(cls, format)
        d == NewDumper(T.objs, format, key)
        stored == [cache |-> [T.cache EXCEPT ![format] = (key :> d) @@ @],
                   objs |-> (d :> [src |-> cls, factory |-> dcls, sub |-> None]) @@ T.objs]
    IN IF IsRaise(found.res)
       THEN [cache |-> T.cache, objs |-> T.objs, res |-> found.res]
       ELSE IF DumperCached(T, format, key)
       THEN [cache |-> T.cache, objs |-> T.objs, res |-> T.cache[format][key]]
       ELSE IF dcls = None
       THEN [cache |-> T.cache, objs |-> T.objs,
             res |-> Raise("ProgrammingError", "cannot adapt type")]
       ELSE IF cls # "list"
       THEN [cache |-> stored.cache, objs |-> stored.objs, res |-> d]
       ELSE LET sub == get_dumper(stored, subobj, format) IN
            IF IsRaise(sub.res) THEN sub
            ELSE [cache |-> sub.cache,
                  objs |-> [sub.objs EXCEPT ![d].sub = sub.res],   \* set_sub_dumper
                  res |-> d]

\* dumper.dump(param): the bytes are whatever that dumper makes of the value.
Dump(d, param) == [t |-> "bytes", dumper |-> d, value |-> param]

(***************************************************************************)
(* Transformer.dump_sequence                                               *)
(***************************************************************************)
IndexError == Raise("IndexError", "index out of range")

RECURSIVE DumpLoop(_, _, _, _, _, _)

\* Mutant: every parameter is dumped in the format of the first one.
DumpLoop_firstFormat(T, params, formats, i, ps, ts) ==
    IF i > Len(params)
    THEN [cache |-> T.cache, objs |-> T.objs, res |-> [t |-> "tuple", ps |-> ps, ts |-> ts]]
    ELSE IF params[i] = None THEN DumpLoop(T, params, formats, i + 1, ps, ts)
    ELSE IF i > Len(formats) THEN [cache |-> T.cache, objs |-> T.objs, res |-> IndexError]
    ELSE LET r == get_dumper(T, params[i], formats[1]) IN
         IF IsRaise(r.res) THEN r
         ELSE DumpLoop([cache |-> r.cache, objs |-> r.objs], params, formats, i + 1,
                       [ps EXCEPT ![i] = Dump(r.res, params[i])],
                       [ts EXCEPT ![i] = DumperOid(r.objs[r.res].factory)])

DumpLoop(T, params, formats, i, ps, ts) ==
    IF i > Len(params)
    THEN [cache |-> T.cache, objs |-> T.objs, res |-> [t |-> "tuple", ps |-> ps, ts |-> ts]]
    ELSE IF params[i] = None THEN DumpLoop(T, params, formats, i + 1, ps, ts)
    ELSE IF i > Len(formats) THEN [cache |-> T.cache, objs |-> T.objs, res |-> IndexError]
    ELSE LET r == get_dumper(T, params[i], formats[i]) IN
         IF IsRaise(r.res) THEN r
         ELSE DumpLoop([cache |-> r.cache, objs |-> r.objs], params, formats, i + 1,
                       [ps EXCEPT ![i] = Dump(r.res, params[i])],
                       [ts EXCEPT ![i] = DumperOid(r.objs[r.res].factory)])

dump_sequence(T, unknown_oid, params, formats) ==
    DumpLoop(T, params, formats, 1,
             [i \in 1..Len(params) |-> None],
             [i \in 1..Len(params) |-> unknown_oid])

(***************************************************************************)
(* Transformer.__init__: the state after construction from a context.      *)
(***************************************************************************)
PG10 == 100000
ServerVersions == {PG10 - 1, PG10}

Connection(v) == [t |-> "connection", server_version |-> v]
Context(conn) == [t |-> "context", connection |-> conn]
Contexts == {None, Context(None)} \cup {Context(Connection(v)) : v \in ServerVersions}

\* Mutant: the version test includes 100000.
__init__le(ctx) ==
    /\ context = ctx
    /\ global_adapters = [dumpers |-> GlobalDumpers, loaders |-> GlobalLoaders]
    /\ context_adapters = IF ctx # None
                          THEN [dumpers |-> ContextDumpers, loaders |-> ContextLoaders]
                          ELSE [dumpers |-> Empty, loaders |-> Empty]
    /\ _adapters = IF ctx # None THEN "context" ELSE "global"
    /\ _connection = IF ctx # None THEN ctx.connection ELSE None
    /\ _unknown_oid = IF /\ ctx # None
                         /\ ctx.connection # None
                         /\ ctx.connection.server_version <= PG10
                      THEN TEXT_OID ELSE INVALID_OID
    /\ _dumpers_cache = [f \in Formats |-> Empty]
    /\ _loaders_cache = [f \in Formats |-> Empty]
    /\ dumpers = Empty
    /\ loaders = Empty
    /\ _pgresult = None
    /\ _nfields = Unset
    /\ _ntuples = Unset
    /\ _row_loaders = <<>>
    /\ ret = [op |-> "__init__"]

__init__(ctx) ==
    /\ context = ctx
    /\ global_adapters = [dumpers |-> GlobalDumpers, loaders |-> GlobalLoaders]
    /\ context_adapters = IF ctx # None
                          THEN [dumpers |-> ContextDumpers, loaders |-> ContextLoaders]
                          ELSE [dumpers |-> Empty, loaders |-> Empty]
    /\ _adapters = IF ctx # None THEN "context" ELSE "global"
    /\ _connection = IF ctx # None THEN ctx.connection ELSE None
    /\ _unknown_oid = IF /\ ctx # None
                         /\ ctx.connection # None
                         /\ ctx.connection.server_version < PG10
                      THEN TEXT_OID ELSE INVALID_OID
    /\ _dumpers_cache = [f \in Formats |-> Empty]
    /\ _loaders_cache = [f \in Formats |-> Empty]
    /\ dumpers = Empty
    /\ loaders = Empty
    /\ _pgresult = None
    /\ _nfields = Unset
    /\ _ntuples = Unset
    /\ _row_loaders = <<>>
    /\ ret = [op |-> "__init__"]

(***************************************************************************)
(* The dumper side: calls of get_dumper and dump_sequence.                 *)
(***************************************************************************)
DumperSide == [cache |-> _dumpers_cache, objs |-> dumpers]

SeqsUpTo(S, n) == UNION {[1..k -> S] : k \in 0..n}

\* Parameter values: for the encoding runs, and for the resolution runs.
DumpParams == {None, IntV(1), LStr}
ResolveParams == {None, LInt}

\* Formats for n parameters: all TEXT, all BINARY, or alternating.
FormatSeqs(n) ==
    {[i \in 1..n |-> TEXT], [i \in 1..n |-> BINARY],
     [i \in 1..n |-> IF i % 2 = 1 THEN TEXT ELSE BINARY]}

GetDumperCall ==
    \E obj \in Values, format \in Formats :
        LET r == get_dumper(DumperSide, obj, format) IN
        /\ _dumpers_cache' = r.cache
        /\ dumpers' = r.objs
        /\ ret' = [op |-> "get_dumper", obj |-> obj, format |-> format, res |-> r.res]
        /\ UNCHANGED <<ctorVars, _loaders_cache, loaders, bindVars>>

DumpSequenceCall(values) ==
    \E params \in SeqsUpTo(values, MaxParams) :
    \E formats \in FormatSeqs(Len(params)) :
        LET r == dump_sequence(DumperSide, _unknown_oid, params, formats) IN
        /\ _dumpers_cache' = r.cache
        /\ dumpers' = r.objs
        /\ ret' = [op |-> "dump_sequence", params |-> params, formats |-> formats,
                   res |-> r.res]
        /\ UNCHANGED <<ctorVars, _loaders_cache, loaders, bindVars>>

\* A Transformer built without a context or from a context without connection.
InitDump == \E ctx \in {None, Context(None)} : __init__(ctx)
NextDump == GetDumperCall \/ DumpSequenceCall(ResolveParams)
SpecDump == InitDump /\ [][NextDump]_vars

\* Element-type inference alone, over every heap of two list objects of at
\* most MaxLen elements: nulls, an int, a string and the two lists.
Elems == {None, IntV(1), StrV(1)} \cup {Ref(i) : i \in ListIds}
Heaps == {Heap(l1, l2) : l1 \in SeqsUpTo(Elems, MaxLen), l2 \in SeqsUpTo(Elems, MaxLen)}

\* subobj = self._find_list_element(obj)
FindListElementCall ==
    \E h \in Heaps :
        /\ ret' = [op |-> "_find_list_element", obj |-> ListVal(h, 1),
                   res |-> _find_list_element(h, 1, {}).res]
        /\ UNCHANGED <<ctorVars, dumpVars, _loaders_cache, loaders, bindVars>>

InitFind == __init__(None)
NextFind == FindListElementCall
SpecFind == InitFind /\ [][NextFind]_vars

\* Parameter encoding on a Transformer built from any context.
InitEncode == \E ctx \in Contexts : __init__(ctx)
NextEncode == DumpSequenceCall(DumpParams)
SpecEncode == InitEncode /\ [][NextEncode]_vars

(***************************************************************************)
(* Results.  A PGresult is known by its columns (type OID and format of    *)
(* each) and its row count; a cell is absent or holds raw bytes.  Rows and *)
(* columns are numbered from 0, as in the result's interface.              *)
(***************************************************************************)
PGresult(cols, nt) == [t |-> "PGresult", cols |-> cols, ntuples |-> nt]
nfields(result) == Len(result.cols)
ftype(result, i) == result.cols[i + 1][1]
fformat(result, i) == result.cols[i + 1][2]
get_value(result, row, col) ==
    IF (row + col) % 2 = 1 THEN None
    ELSE [t |-> "bytes", row |-> row, col |-> col]

(***************************************************************************)
(* Transformer.get_loader.  T is the loader side of the Transformer:       *)
(* [cache |-> _loaders_cache, objs |-> loaders].                           *)
(***************************************************************************)
LoaderId(format, oid, n) == [t |-> "Loader", format |-> format, oid |-> oid, n |-> n]

\* loader_cls(oid, self): a new object, distinct from every object made before.
NewLoader(objs, format, oid) ==
    LoaderId(format, oid,
             1 + Cardinality({l \in DOMAIN objs : l.format = format /\ l.oid = oid}))

\* Mutant: the cache is never consulted.
LoaderCached_never(T, format, oid) == FALSE

\* try: return self._loaders_cache[format][oid] / except KeyError: pass
LoaderCached(T, format, oid) == oid \in DOMAIN T.cache[format]

\* Mutant: no fall back to the factory registered for INVALID_OID.
LoaderClass_nofallback(oid, format) == AdaptersGetLoader(oid, format)

\* The factory for the oid, or else the one registered for INVALID_OID.
LoaderClass(oid, format) ==
    IF AdaptersGetLoader(oid, format) # None THEN AdaptersGetLoader(oid, format)
    ELSE AdaptersGetLoader(INVALID_OID, format)

get_loader(T, oid, format) ==
    LET loader_cls == LoaderClass(oid, format)
        loader == NewLoader(T.objs, format, oid)
    IN IF LoaderCached(T, format, oid)
       THEN [cache |-> T.cache, objs |-> T.objs, res |-> T.cache[format][oid]]
       ELSE IF loader_cls = None
       THEN [cache |-> T.cache, objs |-> T.objs,
             res |-> Raise("InterfaceError", "unknown oid loader not found")]
       ELSE [cache |-> [T.cache EXCEPT ![format] = (oid :> loader) @@ @],
             objs |-> (loader :> [oid |-> oid, factory |-> loader_cls]) @@ T.objs,
             res |-> loader]

\* loader.load: the bound method kept in _row_loaders, and its application.
LoadFunc(loader) == [t |-> "load", loader |-> loader]
Load(f, val) == [t |-> "value", loader |-> f.loader, raw |-> val]

(***************************************************************************)
(* The pgresult setter and set_row_types.  Both resolve one loader per     *)
(* column; B is the binding [pgresult, nfields, ntuples, row_loaders].     *)
(***************************************************************************)
\* for i in range(nf): rc.append(self.get_loader(oid, fmt).load)
\* rc is the list already stored in self._row_loaders.
RECURSIVE BindLoop(_, _, _, _)
BindLoop(T, result, i, rc) ==
    IF i >= nfields(result) THEN [cache |-> T.cache, objs |-> T.objs, rc |-> rc, res |-> None]
    ELSE LET r == get_loader(T, ftype(result, i), fformat(result, i)) IN
         IF IsRaise(r.res) THEN [cache |-> r.cache, objs |-> r.objs, rc |-> rc, res |-> r.res]
         ELSE BindLoop([cache |-> r.cache, objs |-> r.objs], result, i + 1,
                       Append(rc, LoadFunc(r.res)))

set_pgresult(T, B, result) ==
    IF result = None
    THEN [cache |-> T.cache, objs |-> T.objs, res |-> None,
          bind |-> [pgresult |-> None, nfields |-> 0, ntuples |-> 0, row_loaders |-> <<>>]]
    ELSE LET r == BindLoop(T, result, 0, <<>>) IN
         [cache |-> r.cache, objs |-> r.objs, res |-> r.res,
          bind |-> [pgresult |-> result, nfields |-> nfields(result),
                    ntuples |-> result.ntuples, row_loaders |-> r.rc]]

\* for i in range(len(rc)): rc[i] = self.get_loader(types[i], formats[i]).load
RECURSIVE RowTypesLoop(_, _, _, _, _)
RowTypesLoop(T, types, formats, i, rc) ==
    IF i > Len(types) THEN [cache |-> T.cache, objs |-> T.objs, rc |-> rc, res |-> None]
    ELSE IF i > Len(formats)
    THEN [cache |-> T.cache, objs |-> T.objs, rc |-> rc, res |-> IndexError]
    ELSE LET r == get_loader(T, types[i], formats[i]) IN
         IF IsRaise(r.res) THEN [cache |-> r.cache, objs |-> r.objs, rc |-> rc, res |-> r.res]
         ELSE RowTypesLoop([cache |-> r.cache, objs |-> r.objs], types, formats, i + 1,
                           [rc EXCEPT ![i] = LoadFunc(r.res)])

set_row_types(T, B, types, formats) ==
    LET r == RowTypesLoop(T, types, formats, 1, [i \in 1..Len(types) |-> None]) IN
    [cache |-> r.cache, objs |-> r.objs, res |-> r.res,
     bind |-> IF IsRaise(r.res) THEN B ELSE [B EXCEPT !.row_loaders = r.rc]]

(***************************************************************************)
(* Transformer.load_rows, load_row, load_sequence                          *)
(***************************************************************************)
\* for col in range(self._nfields): ... record[col] = self._row_loaders[col](val)
RECURSIVE LoadRecord(_, _, _, _)
LoadRecord(B, row, col, record) ==
    IF col >= B.nfields THEN [t |-> "tuple", items |-> record]
    ELSE LET val == get_value(B.pgresult, row, col) IN
         IF val = None THEN LoadRecord(B, row, col + 1, record)
         ELSE IF col + 1 > Len(B.row_loaders) THEN IndexError
         ELSE LoadRecord(B, row, col + 1,
                         [record EXCEPT ![col + 1] = Load(B.row_loaders[col + 1], val)])

NewRecord(B) == [c \in 1..B.nfields |-> None]

\* for row in range(row0, row1): ...
RECURSIVE LoadRowsLoop(_, _, _, _)
LoadRowsLoop(B, row, row1, records) ==
    IF row >= row1 THEN [t |-> "list", rows |-> records]
    ELSE LET record == LoadRecord(B, row, 0, NewRecord(B)) IN
         IF record = IndexError THEN IndexError
         ELSE LoadRowsLoop(B, row + 1, row1, Append(records, record))

\* Mutant: the result-not-set check is left out and nothing is decoded.
load_rows_unchecked(B, row0, row1) ==
    IF B.pgresult = None THEN [t |-> "list", rows |-> <<>>]
    ELSE IF ~(0 <= row0 /\ row0 <= B.ntuples /\ 0 <= row1 /\ row1 <= B.ntuples)
    THEN Raise("InterfaceError", "rows must be included between 0 and ntuples")
    ELSE LoadRowsLoop(B, row0, row1, <<>>)

load_rows(B, row0, row1) ==
    IF B.pgresult = None THEN Raise("InterfaceError", "result not set")
    ELSE IF ~(0 <= row0 /\ row0 <= B.ntuples /\ 0 <= row1 /\ row1 <= B.ntuples)
    THEN Raise("InterfaceError", "rows must be included between 0 and ntuples")
    ELSE LoadRowsLoop(B, row0, row1, <<>>)

\* Mutant: the first row is decoded whatever row is asked for.
load_row_firstRow(B, row) ==
    IF B.pgresult = None THEN None
    ELSE IF ~(0 <= row /\ row < B.ntuples) THEN None
    ELSE LoadRecord(B, 0, 0, NewRecord(B))

load_row(B, row) ==
    IF B.pgresult = None THEN None
    ELSE IF ~(0 <= row /\ row < B.ntuples) THEN None
    ELSE LoadRecord(B, row, 0, NewRecord(B))

\* Mutant: the shape check also asks for a bound result.
load_sequence_needsResult(B, record) ==
    IF B.pgresult = None \/ Len(B.row_loaders) # Len(record)
    THEN Raise("ProgrammingError", "cannot load sequence: loaders registered")
    ELSE [t |-> "tuple",
          items |-> [i \in 1..Len(record) |->
                        IF record[i] # None THEN Load(B.row_loaders[i], record[i])
                        ELSE None]]

load_sequence(B, record) ==
    IF Len(B.row_loaders) # Len(record)
    THEN Raise("ProgrammingError", "cannot load sequence: loaders registered")
    ELSE [t |-> "tuple",
          items |-> [i \in 1..Len(record) |->
                        IF record[i] # None THEN Load(B.row_loaders[i], record[i])
                        ELSE None]]

(***************************************************************************)
(* The loader side: binding a result, setting row types, resolving loaders *)
(* and decoding rows.                                                      *)
(***************************************************************************)
LoaderSide == [cache |-> _loaders_cache, objs |-> loaders]
Binding == [pgresult |-> _pgresult, nfields |-> _nfields, ntuples |-> _ntuples,
            row_loaders |-> _row_loaders]

\* Column descriptions: (type OID, format).
ColTypes == {<<INT_OID, TEXT>>, <<TEXT_OID, TEXT>>, <<TEXT_OID, BINARY>>}
ColSeqs == SeqsUpTo(ColTypes, MaxCols)

\* Results of every column layout, for the binding operations.
BindResults == {PGresult(cols, MaxRows) : cols \in ColSeqs}

\* Results of every size, for the decoding operations: n columns that
\* alternate between int4 and text, the last one possibly binary text.
Layout(n, last) ==
    [i \in 1..n |-> IF i = n /\ last # None THEN last
                    ELSE IF i % 2 = 1 THEN <<INT_OID, TEXT>> ELSE <<TEXT_OID, TEXT>>]
Layouts == {Layout(n, last) : n \in 0..MaxCols, last \in {None, <<TEXT_OID, BINARY>>}}
LoadResults == {PGresult(cols, nt) : cols \in Layouts, nt \in 0..MaxRows}
Rows == -1..MaxRows + 1
Raw(n) == [t |-> "bytes", copy |-> n]
Records == SeqsUpTo({None, Raw(1)}, MaxCols)

Bound(r) ==
    /\ _loaders_cache' = r.cache
    /\ loaders' = r.objs
    /\ _pgresult' = r.bind.pgresult
    /\ _nfields' = r.bind.nfields
    /\ _ntuples' = r.bind.ntuples
    /\ _row_loaders' = r.bind.row_loaders

SetPgresult(results) ==
    \E result \in results \cup {None} :
        LET r == set_pgresult(LoaderSide, Binding, result) IN
        /\ Bound(r)
        /\ ret' = [op |-> "pgresult", result |-> result, res |-> r.res]
        /\ UNCHANGED <<ctorVars, dumpVars>>

SetRowTypes(colseqs) ==
    \E cols \in colseqs :
        LET types == [i \in 1..Len(cols) |-> cols[i][1]]
            formats == [i \in 1..Len(cols) |-> cols[i][2]]
            r == set_row_types(LoaderSide, Binding, types, formats)
        IN /\ Bound(r)
           /\ ret' = [op |-> "set_row_types", types |-> types, formats |-> formats,
                      res |-> r.res]
           /\ UNCHANGED <<ctorVars, dumpVars>>

GetLoaderCall ==
    \E oid \in OIDs, format \in Formats :
        LET r == get_loader(LoaderSide, oid, format) IN
        /\ _loaders_cache' = r.cache
        /\ loaders' = r.objs
        /\ ret' = [op |-> "get_loader", oid |-> oid, format |-> format, res |-> r.res]
        /\ UNCHANGED <<ctorVars, dumpVars, bindVars>>

LoadRowsCall ==
    \E row0 \in Rows, row1 \in Rows :
        /\ ret' = [op |-> "load_rows", row0 |-> row0, row1 |-> row1,
                   res |-> load_rows(Binding, row0, row1)]
        /\ UNCHANGED <<ctorVars, dumpVars, _loaders_cache, loaders, bindVars>>

LoadRowCall ==
    \E row \in Rows :
        /\ ret' = [op |-> "load_row", row |-> row, res |-> load_row(Binding, row)]
        /\ UNCHANGED <<ctorVars, dumpVars, _loaders_cache, loaders, bindVars>>

LoadSequenceCall ==
    \E record \in Records :
        /\ ret' = [op |-> "load_sequence", record |-> record,
                   res |-> load_sequence(Binding, record)]
        /\ UNCHANGED <<ctorVars, dumpVars, _loaders_cache, loaders, bindVars>>

\* Binding and loader resolution, over every column layout.
InitBind == \E ctx \in {None, Context(None)} : __init__(ctx)
NextBind == SetPgresult(BindResults) \/ SetRowTypes(Layouts) \/ GetLoaderCall
SpecBind == InitBind /\ [][NextBind]_vars

\* Binding and decoding, over results of every size.
InitLoad == \E ctx \in {None, Context(None)} : __init__(ctx)
NextLoad ==
    \/ SetPgresult(LoadResults) \/ SetRowTypes(Layouts)
    \/ LoadRowsCall \/ LoadRowCall \/ LoadSequenceCall
SpecLoad == InitLoad /\ [][NextLoad]_vars

(***************************************************************************)
(* Dumper.register and Loader.register (psycopg3/adapt.py).  R is the      *)
(* registry: [global |-> the process-wide maps, ctx |-> the context's own  *)
(* maps].  The arguments are Python objects: a class, a value, a factory.  *)
(***************************************************************************)
TypeObj(name) == [t |-> "type", name |-> name]       \* the class called name

\* Mutant: every object passes for callable.
callable_any(x) == TRUE

\* callable(x): a factory (a class or a function) is, a value is not.  A
\* class being callable, the subclass test that follows it adds nothing.
callable(x) == x.t = "factory"

\* Mutant: the insertion always targets the process-wide map.
RegisterWhere_global(ctx) == "global"

\* context.dumpers if context is not None else Dumper.globals
RegisterWhere(ctx) == IF ctx # None THEN "ctx" ELSE "global"

TypeError(msg) == Raise("TypeError", msg)

DumperRegister(R, src, dumper, ctx, format) ==
    IF src.t # "type"
    THEN [global |-> R.global, ctx |-> R.ctx,
          res |-> TypeError("dumpers should be registered on classes")]
    ELSE IF ~callable(dumper)
    THEN [global |-> R.global, ctx |-> R.ctx,
          res |-> TypeError("dumpers should be callable or Dumper subclasses")]
    ELSE [[R EXCEPT ![RegisterWhere(ctx)].dumpers = (<<src.name, format>> :> dumper) @@ @]
             EXCEPT !.res = dumper]

LoaderRegister(R, oid, loader, ctx, format) ==
    IF oid.t # "int"
    THEN [global |-> R.global, ctx |-> R.ctx,
          res |-> TypeError("typeloaders should be registered on oid")]
    ELSE IF ~callable(loader)
    THEN [global |-> R.global, ctx |-> R.ctx,
          res |-> TypeError("dumpers should be callable or Loader subclasses")]
    ELSE [[R EXCEPT ![RegisterWhere(ctx)].loaders = (<<oid.v, format>> :> loader) @@ @]
             EXCEPT !.res = loader]

Registry == [global |-> global_adapters, ctx |-> context_adapters, res |-> None]

\* The contexts a registration can name: none, or the Transformer's own.
RegisterContexts == {None, context}

DumperRegisterCall(srcs, factories, formats) ==
    \E src \in srcs, dumper \in factories, format \in formats, ctx \in RegisterContexts :
        LET r == DumperRegister(Registry, src, dumper, ctx, format) IN
        /\ global_adapters' = r.global
        /\ context_adapters' = r.ctx
        /\ ret' = [op |-> "Dumper.register", src |-> src, dumper |-> dumper,
                   context |-> ctx, format |-> format, res |-> r.res]
        /\ UNCHANGED <<context, _adapters, _connection, _unknown_oid, dumpVars,
                       _loaders_cache, loaders, bindVars>>

LoaderRegisterCall(oids, factories, formats) ==
    \E oid \in oids, loader \in factories, format \in formats, ctx \in RegisterContexts :
        LET r == LoaderRegister(Registry, oid, loader, ctx, format) IN
        /\ global_adapters' = r.global
        /\ context_adapters' = r.ctx
        /\ ret' = [op |-> "Loader.register", oid |-> oid, loader |-> loader,
                   context |-> ctx, format |-> format, res |-> r.res]
        /\ UNCHANGED <<context, _adapters, _connection, _unknown_oid, dumpVars,
                       _loaders_cache, loaders, bindVars>>

\* Registration arguments: a class and an instance as dumper key, an integer
\* and a string as loader key, a factory and a string as factory.
RegisterSrcs == {TypeObj("int"), IntV(1)}
RegisterOids == {IntV(TEXT_OID), StrV(1)}
RegisterDumpers == {Factory("AltDumper"), StrV(2)}
RegisterLoaders == {Factory("AltLoader"), StrV(2)}

\* Registration alone, valid and invalid, with and without context.
InitRegister == \E ctx \in {None, Context(None)} : __init__(ctx)
NextRegister ==
    \/ DumperRegisterCall(RegisterSrcs, RegisterDumpers, Formats)
    \/ LoaderRegisterCall(RegisterOids, RegisterLoaders, Formats)
SpecRegister == InitRegister /\ [][NextRegister]_vars

(***************************************************************************)
(* Resolution, binding, encoding and decoding on one Transformer while     *)
(* factories are registered for keys it resolves: int in TEXT for the      *)
(* dumpers, the text OID in TEXT for the loaders.                          *)
(***************************************************************************)
GetDumperOf(values, formats) ==
    \E obj \in values, format \in formats :
        LET r == get_dumper(DumperSide, obj, format) IN
        /\ _dumpers_cache' = r.cache
        /\ dumpers' = r.objs
        /\ ret' = [op |-> "get_dumper", obj |-> obj, format |-> format, res |-> r.res]
        /\ UNCHANGED <<ctorVars, _loaders_cache, loaders, bindVars>>

GetLoaderOf(oids, formats) ==
    \E oid \in oids, format \in formats :
        LET r == get_loader(LoaderSide, oid, format) IN
        /\ _loaders_cache' = r.cache
        /\ loaders' = r.objs
        /\ ret' = [op |-> "get_loader", oid |-> oid, format |-> format, res |-> r.res]
        /\ UNCHANGED <<ctorVars, dumpVars, bindVars>>

CacheValues == {IntV(1), LInt}
CacheCols == {<<<<TEXT_OID, TEXT>>>>}
CacheResults == {PGresult(cols, MaxRows) : cols \in CacheCols}

InitCache == \E ctx \in {None, Context(None)} : __init__(ctx)
NextCache ==
    \/ DumperRegisterCall({TypeObj("int")}, {Factory("AltDumper")}, {TEXT})
    \/ LoaderRegisterCall({IntV(TEXT_OID)}, {Factory("AltLoader")}, {TEXT})
    \/ GetDumperOf(CacheValues, {TEXT})
    \/ GetLoaderOf({TEXT_OID}, {TEXT})
    \/ DumpSequenceCall({IntV(1)})
    \/ SetPgresult(CacheResults)
    \/ SetRowTypes(CacheCols)
    \/ LoadRowCall
SpecCache == InitCache /\ [][NextCache]_vars

(***************************************************************************)
(* Properties of dumper resolution.                                        *)
(***************************************************************************)
Returned(r) == ~IsRaise(r.res)
OtherFormat(f) == IF f = TEXT THEN BINARY ELSE TEXT
CachedIn(cache, f) == {cache[f][k] : k \in DOMAIN cache[f]}

\* The DumperKey of a value whose element-type inference does not raise.
KeyOf(obj) ==
    IF type(obj) # "list" THEN <<type(obj)>>
    ELSE LET leaf == _find_list_element(obj.heap, obj.id, {}).res
         IN <<"list", IF leaf = None THEN "str" ELSE type(leaf)>>

\* C1: a get_dumper or get_loader call that fails leaves both dumper caches
\* and both loader caches exactly as they were before the call.
C1_FailedResolutionKeepsCaches ==
    [][(ret'.op \in {"get_dumper", "get_loader"} /\ IsRaise(ret'.res))
        => (_dumpers_cache' = _dumpers_cache /\ _loaders_cache' = _loaders_cache)]_vars

\* C4: get_dumper on a list that contains itself, directly or transitively,
\* fails with the cyclic-data error and returns no dumper.
C4_CyclicListRaises ==
    (ret.op = "get_dumper" /\ IsCyclic(ret.obj))
        => (IsRaise(ret.res) /\ ret.res.exc = "DataError")

\* C5: every list dumper held in a dumper cache under (list, E) for format F,
\* and so every list dumper get_dumper returns, has a sub-dumper attached, and
\* it is the dumper cached for E in format F.
C5_ListDumperHasSubDumper ==
    \A f \in Formats : \A k \in DOMAIN _dumpers_cache[f] :
        Len(k) = 2 =>
            /\ dumpers[_dumpers_cache[f][k]].sub # None
            /\ <<k[2]>> \in DOMAIN _dumpers_cache[f]
            /\ dumpers[_dumpers_cache[f][k]].sub = _dumpers_cache[f][<<k[2]>>]

Resolved(obj, format) == get_dumper(DumperSide, obj, format).res

\* C8: dump_sequence returns a buffer and an OID per parameter, in order:
\* nothing and the unknown OID for a null, and for any other value the bytes
\* made by its resolved dumper and the OID that dumper reports.
C8_DumpSequenceParallel ==
    (ret.op = "dump_sequence" /\ Returned(ret)) =>
        /\ Len(ret.res.ps) = Len(ret.params)
        /\ Len(ret.res.ts) = Len(ret.params)
        /\ \A i \in 1..Len(ret.params) :
              IF ret.params[i] = None
              THEN ret.res.ps[i] = None /\ ret.res.ts[i] = _unknown_oid
              ELSE LET d == Resolved(ret.params[i], ret.formats[i]) IN
                   /\ d \in DOMAIN dumpers
                   /\ d.format = ret.formats[i]
                   /\ dumpers[d].src = type(ret.params[i])
                   /\ ret.res.ps[i] = Dump(d, ret.params[i])
                   /\ ret.res.ts[i] = DumperOid(dumpers[d].factory)

\* C8 witness: dump_sequence([None, 1], [TEXT, TEXT]) has returned.
C8_Witness ==
    /\ ret.op = "dump_sequence" /\ Returned(ret)
    /\ ret.params = <<None, IntV(1)>> /\ ret.formats = <<TEXT, TEXT>>
    /\ ret.res.ts = <<_unknown_oid, INT_OID>>

\* The OID the construction context calls for.
NullOidOf(ctx) ==
    IF ctx = None THEN INVALID_OID
    ELSE IF ctx.connection = None THEN INVALID_OID
    ELSE IF ctx.connection.server_version >= PG10 THEN INVALID_OID
    ELSE TEXT_OID

\* C9: the OID reported for null parameters is TEXT_OID when the Transformer
\* was built from a context whose connection has server_version < 100000 and
\* INVALID_OID otherwise, in every state; a non-null parameter reports its
\* dumper's OID whatever the context.
C9_NullOidFixedByContext ==
    /\ _unknown_oid = NullOidOf(context)
    /\ (ret.op = "dump_sequence" /\ Returned(ret)) =>
          \A i \in 1..Len(ret.params) :
              IF ret.params[i] = None
              THEN ret.res.ts[i] = NullOidOf(context)
              ELSE ret.res.ts[i] =
                       DumperOid(dumpers[Resolved(ret.params[i], ret.formats[i])].factory)

\* C9 witness: on a pre-10 server a null parameter reported TEXT_OID next to
\* a list parameter whose dumper reports INVALID_OID.
C9_Witness ==
    /\ context # None /\ context.connection # None
    /\ context.connection.server_version < PG10
    /\ ret.op = "dump_sequence" /\ Returned(ret)
    /\ ret.params = <<LStr, None>>
    /\ ret.res.ts = <<INVALID_OID, TEXT_OID>>

(***************************************************************************)
(* Properties of loader resolution, binding and decoding.                  *)
(***************************************************************************)
\* C2: whenever a result is bound, the loader sequence is as long as the
\* result has columns.
C2_RowLoadersMatchColumns ==
    _pgresult # None => Len(_row_loaders) = nfields(_pgresult)

\* C3: with a result bound, load_rows(row0, row1) fails with the range error
\* whenever 0 <= row0 <= row1 <= ntuples does not hold, and returns an empty
\* sequence when row0 = row1 lies within 0..ntuples.
C3_LoadRowsRangeChecked ==
    (ret.op = "load_rows" /\ _pgresult # None) =>
        /\ ~(0 <= ret.row0 /\ ret.row0 <= ret.row1 /\ ret.row1 <= _pgresult.ntuples)
              => (IsRaise(ret.res) /\ ret.res.exc = "InterfaceError")
        /\ (ret.row0 = ret.row1 /\ 0 <= ret.row0 /\ ret.row0 <= _pgresult.ntuples)
              => ret.res = [t |-> "list", rows |-> <<>>]

\* The load function of the loader cached for a column of the bound result.
ColumnLoader(col) ==
    LoadFunc(_loaders_cache[fformat(_pgresult, col)][ftype(_pgresult, col)])

\* C10: for a bound result and 0 <= a <= b <= ntuples, load_rows(a, b) returns
\* b - a tuples in row order, each with one entry per column: null for an
\* absent cell, else the column's loader applied to the raw cell.
C10_LoadRowsDecodesRange ==
    (/\ ret.op = "load_rows" /\ _pgresult # None
     /\ 0 <= ret.row0 /\ ret.row0 <= ret.row1 /\ ret.row1 <= _pgresult.ntuples) =>
        /\ Returned(ret)
        /\ Len(ret.res.rows) = ret.row1 - ret.row0
        /\ \A k \in 1..Len(ret.res.rows) :
              /\ Len(ret.res.rows[k].items) = nfields(_pgresult)
              /\ \A c \in 1..nfields(_pgresult) :
                    LET val == get_value(_pgresult, ret.row0 + k - 1, c - 1) IN
                    ret.res.rows[k].items[c] =
                        IF val = None THEN None
                        ELSE Load(ColumnLoader(c - 1), val)

\* C7: get_loader returns the instance cached under (format, oid), which is
\* never replaced, so repeated calls return the same instance; it is built by
\* the factory registered for the OID, or, when there is none, by the one
\* registered for INVALID_OID; it fails exactly when neither is registered.
C7_LoaderReuseAndFallback ==
    [][/\ \A f \in Formats : \A o \in DOMAIN _loaders_cache[f] :
             o \in DOMAIN _loaders_cache'[f] /\ _loaders_cache'[f][o] = _loaders_cache[f][o]
       /\ ret'.op = "get_loader" =>
             LET own == AdaptersGetLoader(ret'.oid, ret'.format)
                 fallback == AdaptersGetLoader(INVALID_OID, ret'.format)
             IN /\ IsRaise(ret'.res) <=> (own = None /\ fallback = None)
                /\ Returned(ret') =>
                      /\ ret'.oid \in DOMAIN _loaders_cache'[ret'.format]
                      /\ ret'.res = _loaders_cache'[ret'.format][ret'.oid]
                      /\ loaders'[ret'.res].oid = ret'.oid
                      /\ loaders'[ret'.res].factory = IF own # None THEN own ELSE fallback
       /\ (/\ ret.op = "get_loader" /\ Returned(ret)
           /\ ret'.op = "get_loader" /\ Returned(ret')
           /\ ret'.oid = ret.oid /\ ret'.format = ret.format) => ret'.res = ret.res
      ]_vars

\* C7 witness: get_loader(TEXT_OID, TEXT), an OID without loader of its own,
\* returned the instance built by the INVALID_OID factory that a bound result
\* already decodes its column with.
C7_Witness ==
    /\ ret.op = "get_loader" /\ ret.oid = TEXT_OID /\ ret.format = TEXT
    /\ ret.res = LoaderId(TEXT, TEXT_OID, 1)
    /\ loaders[ret.res].factory = Factory("UnknownLoader")
    /\ _pgresult # None
    /\ \E c \in 1..Len(_row_loaders) : _row_loaders[c] = LoadFunc(ret.res)

(***************************************************************************)
(* Properties of the single-row and the record decoders.                   *)
(***************************************************************************)
\* C11: load_row(row) returns nothing when no result is bound, when row < 0
\* and when row >= ntuples, and otherwise returns the decoded tuple of the
\* row: one entry per column, null for an absent cell, else the loader at
\* that position applied to the raw cell.  It never raises.
C11_LoadRowAbsentOrDecoded ==
    ret.op = "load_row" =>
        IF _pgresult = None THEN ret.res = None
        ELSE IF ret.row < 0 \/ ret.row >= _pgresult.ntuples THEN ret.res = None
        ELSE /\ Returned(ret)
             /\ ret.res # None
             /\ Len(ret.res.items) = nfields(_pgresult)
             /\ \A c \in 1..nfields(_pgresult) :
                   LET val == get_value(_pgresult, ret.row, c - 1) IN
                   ret.res.items[c] =
                       IF val = None THEN None ELSE Load(_row_loaders[c], val)

\* C12: load_sequence(record) fails with the shape-mismatch error, decoding
\* nothing, whenever the record is not as long as the loader sequence; when
\* it is, it returns one value per item in order (null for an absent item,
\* else the loader at that position applied to it), bound result or not.
C12_LoadSequenceShape ==
    ret.op = "load_sequence" =>
        IF Len(ret.record) # Len(_row_loaders)
        THEN ret.res = Raise("ProgrammingError", "cannot load sequence: loaders registered")
        ELSE /\ Returned(ret)
             /\ Len(ret.res.items) = Len(ret.record)
             /\ \A i \in 1..Len(ret.record) :
                   ret.res.items[i] =
                       IF ret.record[i] = None THEN None
                       ELSE Load(_row_loaders[i], ret.record[i])

\* C12 witness: with no result bound and two loaders installed by
\* set_row_types, load_sequence decoded a record of an absent and a present
\* item.
C12_Witness ==
    /\ ret.op = "load_sequence" /\ Returned(ret)
    /\ _pgresult = None
    /\ Len(_row_loaders) = 2
    /\ ret.record = <<None, Raw(1)>>
    /\ ret.res.items = <<None, Load(_row_loaders[2], Raw(1))>>

\* C17: load_rows fails with the "result not set" error whenever no result
\* is bound, whatever the row arguments and whatever loaders are installed.
C17_LoadRowsNeedsResult ==
    (ret.op = "load_rows" /\ _pgresult = None) =>
        ret.res = Raise("InterfaceError", "result not set")

\* C17 witness: with no result bound and loaders installed by set_row_types,
\* load_rows with both rows out of any range failed with "result not set".
C17_Witness ==
    /\ ret.op = "load_rows" /\ _pgresult = None
    /\ Len(_row_loaders) > 0
    /\ ret.row0 = -1 /\ ret.row1 = MaxRows + 1
    /\ ret.res = Raise("InterfaceError", "result not set")

\* C20: for a bound result and a row r within 0..ntuples-1, load_rows(r, r+1)
\* yields exactly the tuple load_row(r) yields (and fails as load_row fails,
\* if it does); for any other r, load_row(r) returns nothing and
\* load_rows(r, r+1) returns no tuple: it fails or returns an empty sequence.
C20_LoadRowAgreesWithLoadRows ==
    _pgresult # None =>
        \A r \in Rows :
            LET one == load_row(Binding, r)
                many == load_rows(Binding, r, r + 1)
            IN IF 0 <= r /\ r < _ntuples
               THEN IF IsRaise(one) THEN many = one
                    ELSE one # None /\ many = [t |-> "list", rows |-> <<one>>]
               ELSE /\ one = None
                    /\ IsRaise(many) \/ many = [t |-> "list", rows |-> <<>>]

\* C20 witness: load_row(1) returned the tuple of the second row of a bound
\* two-column result, which load_rows(1, 2) returns as its only element.
C20_Witness ==
    /\ ret.op = "load_row" /\ ret.row = 1
    /\ _pgresult # None /\ Len(_row_loaders) = 2 /\ nfields(_pgresult) = 2
    /\ ret.res = [t |-> "tuple",
                  items |-> <<None, Load(_row_loaders[2], get_value(_pgresult, 1, 1))>>]
    /\ load_rows(Binding, 1, 2) = [t |-> "list", rows |-> <<ret.res>>]

(***************************************************************************)
(* Properties of rebinding.                                                *)
(***************************************************************************)
\* The load functions of the loaders cached for a sequence of columns.
LoadersOf(cache, cols) ==
    [c \in 1..Len(cols) |-> LoadFunc(cache[cols[c][2]][cols[c][1]])]

\* A loader sequence that holds the loaders of some, but not all, of the
\* leading columns.
PartialPrefix(rl, cache, cols) ==
    /\ 0 < Len(rl) /\ Len(rl) < Len(cols)
    /\ \A c \in 1..Len(rl) :
          /\ cols[c][1] \in DOMAIN cache[cols[c][2]]
          /\ rl[c] = LoadFunc(cache[cols[c][2]][cols[c][1]])

\* C16: assigning a result, or calling set_row_types, replaces the loader
\* sequence as a whole: after a call that returned it is exactly the loaders
\* resolved for the new columns; after an assignment that failed it is not a
\* partial prefix of the new columns' loaders next to the new result; a
\* set_row_types that failed leaves the binding alone; assigning no result
\* leaves an empty sequence, zero rows and zero columns.
C16_RebindReplacesWhole ==
    [][/\ ret'.op = "pgresult" =>
             IF ret'.result = None
             THEN /\ _pgresult' = None /\ _row_loaders' = <<>>
                  /\ _nfields' = 0 /\ _ntuples' = 0
             ELSE IF Returned(ret')
             THEN /\ _pgresult' = ret'.result
                  /\ _row_loaders' = LoadersOf(_loaders_cache', ret'.result.cols)
             ELSE ~(/\ _pgresult' = ret'.result
                    /\ PartialPrefix(_row_loaders', _loaders_cache', ret'.result.cols))
       /\ ret'.op = "set_row_types" =>
             IF Returned(ret')
             THEN _row_loaders' =
                      LoadersOf(_loaders_cache',
                                [c \in 1..Len(ret'.types) |-> <<ret'.types[c], ret'.formats[c]>>])
             ELSE UNCHANGED bindVars
      ]_vars

(***************************************************************************)
(* Properties of element-type inference.                                   *)
(***************************************************************************)
\* A list all of whose elements, at every depth, are nulls or lists.
AllNull(obj) ==
    \A i \in {obj.id} \cup ReachFrom(obj.heap, {obj.id}, {}) :
        \A k \in 1..Len(obj.heap[i]) :
            obj.heap[i][k] = None \/ type(obj.heap[i][k]) = "list"

\* The first non-null leaf of an acyclic list in depth-first order, or None.
RECURSIVE FirstLeaf(_, _, _)
FirstLeaf(h, L, k) ==
    IF k > Len(h[L]) THEN None
    ELSE IF type(h[L][k]) = "list"
    THEN LET sub == FirstLeaf(h, h[L][k].id, 1) IN
         IF sub # None THEN sub ELSE FirstLeaf(h, L, k + 1)
    ELSE IF h[L][k] # None THEN h[L][k]
    ELSE FirstLeaf(h, L, k + 1)

\* C13: get_dumper on a list that is empty or holds only nulls, at every
\* depth, returns the dumper cached under (list, str) for the format, the one
\* get_dumper returns for a list of strings, with the dumper cached for str
\* as its sub-dumper.
C13_NullListDumpsAsStrList ==
    (ret.op = "get_dumper" /\ type(ret.obj) = "list"
     /\ ~IsCyclic(ret.obj) /\ AllNull(ret.obj)) =>
        /\ Returned(ret)
        /\ <<"list", "str">> \in DOMAIN _dumpers_cache[ret.format]
        /\ ret.res = _dumpers_cache[ret.format][<<"list", "str">>]
        /\ ret.res = Resolved(LStr, ret.format)
        /\ <<"str">> \in DOMAIN _dumpers_cache[ret.format]
        /\ dumpers[ret.res].sub = _dumpers_cache[ret.format][<<"str">>]

\* C18: for every acyclic nesting of lists, one that holds the same sub-list
\* more than once included, element-type inference does not raise and yields
\* the first non-null leaf in depth-first order, or nothing.
C18_AcyclicNeverRaises ==
    (ret.op = "_find_list_element" /\ ~IsCyclic(ret.obj)) =>
        /\ ~IsRaise(ret.res)
        /\ ret.res = FirstLeaf(ret.obj.heap, ret.obj.id, 1)

(***************************************************************************)
(* Properties of registration.                                             *)
(***************************************************************************)
\* The map new is the map old with f put under k and nothing else changed.
Inserted(new, old, k, f) ==
    /\ DOMAIN new = DOMAIN old \cup {k}
    /\ new[k] = f
    /\ \A j \in DOMAIN old \ {k} : new[j] = old[j]

\* C14: a registration made with a context puts the factory under (key,
\* format) in that context's own map and leaves the process-wide map alone;
\* one made without a context puts it in the process-wide map and leaves the
\* context's map alone; entries under other keys or the other format, and
\* the maps of the other kind, stay as they were.
C14_RegisterTargetsOneMap ==
    [][/\ (ret'.op = "Dumper.register" /\ Returned(ret')) =>
             LET k == <<ret'.src.name, ret'.format>> IN
             IF ret'.context # None
             THEN /\ Inserted(context_adapters'.dumpers, context_adapters.dumpers, k, ret'.dumper)
                  /\ context_adapters'.loaders = context_adapters.loaders
                  /\ global_adapters' = global_adapters
             ELSE /\ Inserted(global_adapters'.dumpers, global_adapters.dumpers, k, ret'.dumper)
                  /\ global_adapters'.loaders = global_adapters.loaders
                  /\ context_adapters' = context_adapters
       /\ (ret'.op = "Loader.register" /\ Returned(ret')) =>
             LET k == <<ret'.oid.v, ret'.format>> IN
             IF ret'.context # None
             THEN /\ Inserted(context_adapters'.loaders, context_adapters.loaders, k, ret'.loader)
                  /\ context_adapters'.dumpers = context_adapters.dumpers
                  /\ global_adapters' = global_adapters
             ELSE /\ Inserted(global_adapters'.loaders, global_adapters.loaders, k, ret'.loader)
                  /\ global_adapters'.dumpers = global_adapters.dumpers
                  /\ context_adapters' = context_adapters
      ]_vars

\* C14 witness: a dumper registered for (int, TEXT) with the context sits in
\* the context's map while the process-wide map still holds its own.
C14_Witness ==
    /\ ret.op = "Dumper.register" /\ Returned(ret)
    /\ ret.context # None /\ ret.format = TEXT
    /\ context_adapters.dumpers[<<"int", TEXT>>] = Factory("AltDumper")
    /\ global_adapters.dumpers[<<"int", TEXT>>] = Factory("IntDumper")

\* C15: a registration whose dumper key is not a class, whose loader key is
\* not an integer, or whose factory is not callable fails with a TypeError
\* and inserts nothing: both maps are as they were.
C15_InvalidRegistrationRejected ==
    [][/\ (ret'.op = "Dumper.register"
            /\ (ret'.src.t # "type" \/ ret'.dumper.t # "factory")) =>
             /\ IsRaise(ret'.res) /\ ret'.res.exc = "TypeError"
             /\ global_adapters' = global_adapters
             /\ context_adapters' = context_adapters
       /\ (ret'.op = "Loader.register"
            /\ (ret'.oid.t # "int" \/ ret'.loader.t # "factory")) =>
             /\ IsRaise(ret'.res) /\ ret'.res.exc = "TypeError"
             /\ global_adapters' = global_adapters
             /\ context_adapters' = context_adapters
      ]_vars

\* C15 witness: after a dumper was registered with the context, a loader
\* registration with a valid OID and a factory that is not callable failed.
C15_Witness ==
    /\ ret.op = "Loader.register" /\ IsRaise(ret.res)
    /\ ret.oid = IntV(TEXT_OID) /\ ret.loader = StrV(2)
    /\ <<"int", BINARY>> \in DOMAIN context_adapters.dumpers
    /\ DOMAIN global_adapters.loaders = DOMAIN GlobalLoaders

(***************************************************************************)
(* Properties of the caches under registration.                            *)
(***************************************************************************)
\* C19: no step removes or replaces a cache entry or changes the factory of
\* an instance; get_dumper and get_loader return the instance cached for the
\* key when there is one, whatever was registered for the key since; a key
\* resolved for the first time gets a new instance built by the factory the
\* registry holds at the time of that call.
C19_CacheEntriesPermanent ==
    [][/\ \A f \in Formats :
             /\ \A k \in DOMAIN _dumpers_cache[f] :
                   /\ k \in DOMAIN _dumpers_cache'[f]
                   /\ _dumpers_cache'[f][k] = _dumpers_cache[f][k]
             /\ \A o \in DOMAIN _loaders_cache[f] :
                   /\ o \in DOMAIN _loaders_cache'[f]
                   /\ _loaders_cache'[f][o] = _loaders_cache[f][o]
       /\ \A d \in DOMAIN dumpers :
             d \in DOMAIN dumpers' /\ dumpers'[d].factory = dumpers[d].factory
       /\ \A l \in DOMAIN loaders :
             l \in DOMAIN loaders' /\ loaders'[l].factory = loaders[l].factory
       /\ (ret'.op = "get_dumper" /\ Returned(ret')) =>
             LET k == KeyOf(ret'.obj)
                 f == ret'.format
             IN IF k \in DOMAIN _dumpers_cache[f]
                THEN ret'.res = _dumpers_cache[f][k]
                ELSE /\ ret'.res \notin DOMAIN dumpers
                     /\ _dumpers_cache'[f][k] = ret'.res
                     /\ dumpers'[ret'.res].factory = AdaptersGetDumper(type(ret'.obj), f)
       /\ (ret'.op = "get_loader" /\ Returned(ret')) =>
             LET o == ret'.oid
                 f == ret'.format
             IN IF o \in DOMAIN _loaders_cache[f]
                THEN ret'.res = _loaders_cache[f][o]
                ELSE /\ ret'.res \notin DOMAIN loaders
                     /\ _loaders_cache'[f][o] = ret'.res
                     /\ loaders'[ret'.res].factory = LoaderClass(o, f)
      ]_vars

\* C19 witness: get_loader for the text OID returned the instance built by
\* the fallback factory although another factory has since been registered
\* for that OID, a result is bound, and the dumper cached for int was built
\* by a factory registered after construction.
C19_Witness ==
    /\ ret.op = "get_loader" /\ Returned(ret)
    /\ ret.oid = TEXT_OID /\ ret.format = TEXT
    /\ loaders[ret.res].factory = Factory("UnknownLoader")
    /\ LoaderClass(TEXT_OID, TEXT) = Factory("AltLoader")
    /\ _pgresult # None
    /\ <<"int">> \in DOMAIN _dumpers_cache[TEXT]
    /\ dumpers[_dumpers_cache[TEXT][<<"int">>]].factory = Factory("AltDumper")

====
